---- MODULE Spec2Model ----
(***************************************************************************)
(* A model of the prediction-serving path of nyc-taxi-mlops:               *)
(* src/api/main.py (module import, the startup hook, POST /predict),       *)
(* src/api/schemas.py, src/components/feature_engineering.py and           *)
(* src/utils/geo_utils.py.                                                 *)
(*                                                                         *)
(* Number representation.  Angles are whole degrees, trigonometric values  *)
(* are fixed-point with SCALE = 10000 taken from a one-degree sine table,  *)
(* angles out of arcsin are hundredths of a degree, distances are whole    *)
(* kilometres, a raw model output is a whole number of log-seconds, expm1   *)
(* values are in millionths of a second and response fields are in         *)
(* hundredths (two decimals).  Timestamps are the tuple                    *)
(* <<year, month, day, hour, minute, second>> of the textual form          *)
(* "YYYY-MM-DD HH:MM:SS".                                                  *)
(***************************************************************************)
EXTENDS Integers, Sequences, FiniteSets, TLC

\* ------------------------------------------------------------------ bounds
NumWorkers == 2
MaxTicks == 2
TickSeconds == 1800

\* ------------------------------------------------------- program constants
\* a time to live given in thousandths of a second
CACHE_TTL_MS == 3600 * 1000

\* main.py line 131: the second argument of setex
CACHE_TTL == 3600
AVG_EARTH_RADIUS == 6371

Abs(x) == IF x < 0 THEN -x ELSE x

\* ------------------------------------------------- src/utils/geo_utils.py
SinTable ==
  <<175, 349, 523, 698, 872, 1045, 1219, 1392, 1564, 1736, 1908, 2079, 2250,
    2419, 2588, 2756, 2924, 3090, 3256, 3420, 3584, 3746, 3907, 4067, 4226,
    4384, 4540, 4695, 4848, 5000, 5150, 5299, 5446, 5592, 5736, 5878, 6018,
    6157, 6293, 6428, 6561, 6691, 6820, 6947, 7071, 7193, 7314, 7431, 7547,
    7660, 7771, 7880, 7986, 8090, 8192, 8290, 8387, 8480, 8572, 8660, 8746,
    8829, 8910, 8988, 9063, 9135, 9205, 9272, 9336, 9397, 9455, 9511, 9563,
    9613, 9659, 9703, 9744, 9781, 9816, 9848, 9877, 9903, 9925, 9945, 9962,
    9976, 9986, 9994, 9998, 10000>>

\* the fixed-point unit: sin(90 degrees) = 1
SCALE == SinTable[90]

\* np.sin of an angle in whole degrees, times SCALE
Sin(deg) ==
  LET a == deg % 360
      Q(x) == IF x = 0 THEN 0 ELSE SinTable[x]
  IN  IF a <= 90 THEN Q(a)
      ELSE IF a <= 180 THEN Q(180 - a)
      ELSE IF a <= 270 THEN -Q(a - 180)
      ELSE -Q(360 - a)

\* np.cos of an angle in whole degrees, times SCALE
Cos(deg) == Sin(90 - deg)

\* the largest r in lo..hi with r * r <= n, by bisection
RECURSIVE FloorRoot(_, _, _)
FloorRoot(n, lo, hi) ==
  IF lo = hi THEN lo
  ELSE LET mid == (lo + hi + 1) \div 2
       IN  IF mid * mid <= n THEN FloorRoot(n, mid, hi) ELSE FloorRoot(n, lo, mid - 1)

\* np.sqrt of a value in 0..1 given times SCALE * SCALE; the root times SCALE (floor)
Sqrt(d) == FloorRoot(d, 0, SCALE)

\* np.arcsin of a fixed-point value in 0..SCALE, in hundredths of a degree
\* (linear between the table's neighbours)
ArcSin(s) ==
  LET t == CHOOSE u \in 0..90 : Sin(u) <= s /\ (u = 90 \/ Sin(u + 1) > s)
  IN  IF t = 90 THEN 9000
      ELSE 100 * t + ((s - Sin(t)) * 100) \div (Sin(t + 1) - Sin(t))

\* np.arctan2(y, x) in whole degrees, in -179..180
ArcTan2(y, x) ==
  LET ay == Abs(y)
      ax == Abs(x)
      t  == CHOOSE u \in 0..90 :
               /\ Sin(u) * ax <= Cos(u) * ay
               /\ (u = 90 \/ Sin(u + 1) * ax > Cos(u + 1) * ay)
  IN  IF x = 0 /\ y = 0 THEN 0
      ELSE IF x >= 0 THEN (IF y >= 0 THEN t ELSE -t)
      ELSE (IF y >= 0 THEN 180 - t ELSE t - 180)

\* a haversine that takes both cosines at the first point's latitude
haversine_array_lat1(lat1, lng1, lat2, lng2) ==
  LET dlat == lat2 - lat1
      dlng == lng2 - lng1
      shlat == Sin(dlat \div 2)
      shlng == Sin(dlng \div 2)
      d == shlat * shlat
           + ((Cos(lat1) * Cos(lat1)) \div SCALE) * ((shlng * shlng) \div SCALE)
      dd == IF d > SCALE * SCALE THEN SCALE * SCALE ELSE d
      h == (((2 * AVG_EARTH_RADIUS * ArcSin(Sqrt(dd))) \div 1000) * 17453) \div 100000
  IN  h

\* great-circle distance in whole kilometres
\* (radians = hundredths of a degree * 17453 / 100000000)
haversine_array(lat1, lng1, lat2, lng2) ==
  LET dlat == lat2 - lat1
      dlng == lng2 - lng1
      shlat == Sin(dlat \div 2)
      shlng == Sin(dlng \div 2)
      d == shlat * shlat
           + ((Cos(lat1) * Cos(lat2)) \div SCALE) * ((shlng * shlng) \div SCALE)
      dd == IF d > SCALE * SCALE THEN SCALE * SCALE ELSE d
      h == (((2 * AVG_EARTH_RADIUS * ArcSin(Sqrt(dd))) \div 1000) * 17453) \div 100000
  IN  h

dummy_manhattan_distance(lat1, lng1, lat2, lng2) ==
  LET a == haversine_array(lat1, lng1, lat2, lng2)
      b == haversine_array(lat1, lng1, lat2, lng2)
  IN  a + b

calculate_bearing(lat1, lng1, lat2, lng2) ==
  LET dLon == lng2 - lng1
      y == (Sin(dLon) * Cos(lat2)) \div SCALE
      x == (Cos(lat1) * Sin(lat2)) \div SCALE
           - (((Sin(lat1) * Cos(lat2)) \div SCALE) * Cos(dLon)) \div SCALE
  IN  ArcTan2(y, x)

\* --------------------------------------------------- src/api/schemas.py
\* TaxiInput: the required fields, in declaration order
TaxiInputFields ==
  <<"pickup_datetime", "pickup_longitude", "pickup_latitude",
    "dropoff_longitude", "dropoff_latitude", "passenger_count">>

\* a validation that lets a body without the coordinates and the count through
ValidTaxiInputLax(payload) == "pickup_datetime" \in DOMAIN payload

\* request-body validation FastAPI runs before the handler is entered
ValidTaxiInput(payload) ==
  \A i \in 1..Len(TaxiInputFields) : TaxiInputFields[i] \in DOMAIN payload

\* the TaxiInput object built from a valid body: declared fields only
TaxiInput(payload) ==
  [f \in {TaxiInputFields[i] : i \in 1..Len(TaxiInputFields)} |-> payload[f]]

\* ------------------------------------------------------- request payloads
\* tests/load_test.py generate_payload: the constant payload (Tuesday)
PayloadTuesday ==
  [pickup_datetime |-> <<2026, 1, 20, 15, 30, 0>>,
   pickup_longitude |-> -74, pickup_latitude |-> 40,
   dropoff_longitude |-> -70, dropoff_latitude |-> 44,
   passenger_count |-> 2]

PayloadSaturday ==
  [pickup_datetime |-> <<2026, 1, 24, 10, 0, 0>>,
   pickup_longitude |-> -74, pickup_latitude |-> 40,
   dropoff_longitude |-> -74, dropoff_latitude |-> 46,
   passenger_count |-> 1]

\* a body whose pickup_datetime is a string that is no timestamp
PayloadBadTime ==
  [pickup_datetime |-> <<2026, 13, 45, 10, 0, 0>>,
   pickup_longitude |-> -74, pickup_latitude |-> 40,
   dropoff_longitude |-> -70, dropoff_latitude |-> 44,
   passenger_count |-> 2]

\* tests/integration/test_api.py test_predict_invalid_data
PayloadMissing == [pickup_datetime |-> <<2026, 1, 20, 12, 0, 0>>]

Payloads == {PayloadTuesday, PayloadSaturday, PayloadBadTime, PayloadMissing}

\* ------------------------------- src/components/feature_engineering.py
IsLeap(y) == (y % 4 = 0 /\ y % 100 # 0) \/ y % 400 = 0

DaysInMonth(y, m) ==
  IF m = 2 THEN (IF IsLeap(y) THEN 29 ELSE 28)
  ELSE IF m \in {4, 6, 9, 11} THEN 30 ELSE 31

\* pd.to_datetime succeeds on this text
CanParse(ts) ==
  /\ Len(ts) = 6
  /\ ts[2] \in 1..12
  /\ ts[3] \in 1..DaysInMonth(ts[1], ts[2])
  /\ ts[4] \in 0..23
  /\ ts[5] \in 0..59
  /\ ts[6] \in 0..59

\* a day of the week counted from Sunday = 0
DayOfWeekSundayFirst(ts) ==
  LET t == <<0, 3, 2, 5, 0, 3, 5, 1, 4, 6, 2, 4>>
      y == IF ts[2] < 3 THEN ts[1] - 1 ELSE ts[1]
  IN  (y + y \div 4 - y \div 100 + y \div 400 + t[ts[2]] + ts[3]) % 7

\* .dt.dayofweek: Monday = 0 .. Sunday = 6
DayOfWeek(ts) ==
  LET t == <<0, 3, 2, 5, 0, 3, 5, 1, 4, 6, 2, 4>>
      y == IF ts[2] < 3 THEN ts[1] - 1 ELSE ts[1]
      sundayFirst == (y + y \div 4 - y \div 100 + y \div 400 + t[ts[2]] + ts[3]) % 7
  IN  (sundayFirst + 6) % 7

\* the columns create_features adds to the one-row frame
create_features(df) ==
  LET ts  == df.pickup_datetime
      dow == DayOfWeek(ts)
  IN  [month |-> ts[2],
       day_of_week |-> dow,
       hour |-> ts[4],
       is_weekend |-> IF dow >= 5 THEN 1 ELSE 0,
       distance_haversine |->
         haversine_array(df.pickup_latitude, df.pickup_longitude,
                         df.dropoff_latitude, df.dropoff_longitude),
       distance_manhattan |->
         dummy_manhattan_distance(df.pickup_latitude, df.pickup_longitude,
                                  df.dropoff_latitude, df.dropoff_longitude),
       bearing |->
         calculate_bearing(df.pickup_latitude, df.pickup_longitude,
                           df.dropoff_latitude, df.dropoff_longitude),
       passenger_count |-> df.passenger_count,
       pickup_longitude |-> df.pickup_longitude,
       pickup_latitude |-> df.pickup_latitude,
       dropoff_longitude |-> df.dropoff_longitude,
       dropoff_latitude |-> df.dropoff_latitude]

\* ----------------------------------------------------- src/api/main.py
\* a column list with month and hour in each other's place
features_swapped ==
  <<"passenger_count", "pickup_longitude", "pickup_latitude",
    "dropoff_longitude", "dropoff_latitude",
    "hour", "day_of_week", "month", "is_weekend",
    "distance_haversine", "distance_manhattan", "bearing">>

\* the column list of predict, step C
features ==
  <<"passenger_count", "pickup_longitude", "pickup_latitude",
    "dropoff_longitude", "dropoff_latitude",
    "month", "day_of_week", "hour", "is_weekend",
    "distance_haversine", "distance_manhattan", "bearing">>

\* df_processed[features].to_numpy(): the row as an ordered vector
X_input(df_processed) == [i \in 1..Len(features) |-> df_processed[features[i]]]

\* data.dict(): (name, value) pairs in declaration order
Dict(data) ==
  [i \in 1..Len(TaxiInputFields) |-> <<TaxiInputFields[i], data[TaxiInputFields[i]]>>]

\* the rank of each field name in Python's string order
KeyRank ==
  [dropoff_latitude |-> 1, dropoff_longitude |-> 2, passenger_count |-> 3,
   pickup_datetime |-> 4, pickup_latitude |-> 5, pickup_longitude |-> 6]

\* json.dumps(d, sort_keys=True): the pairs ordered by name
DumpsSorted(pairs) ==
  LET n == Len(pairs)
      Below(j) == Cardinality({k \in 1..n : KeyRank[pairs[k][1]] < KeyRank[pairs[j][1]]})
  IN  [i \in 1..n |-> pairs[CHOOSE j \in 1..n : Below(j) = i - 1]]

\* hashlib.md5(...).hexdigest(): a digest, taken to be collision-free on the
\* requests of the model
Md5(text) == [md5 |-> text]

generate_cache_key(data) == Md5(DumpsSorted(Dict(data)))

\* a serialisation that writes the two values under each other's name
DumpsSwapped(response) ==
  <<<<"predicted_duration_seconds", response.predicted_duration_minutes>>,
    <<"predicted_duration_minutes", response.predicted_duration_seconds>>>>

\* json.dumps(response_data): the pairs in insertion order
Dumps(response) ==
  <<<<"predicted_duration_seconds", response.predicted_duration_seconds>>,
    <<"predicted_duration_minutes", response.predicted_duration_minutes>>>>

\* a stored text json.loads cannot decode
Garbage == <<<<"not json">>>>

\* Python's None / empty string: the falsy results of cache.get
None == <<>>

Truthy(text) == text # <<>>

\* json.loads does not raise on this text
CanLoad(text) == \A i \in 1..Len(text) : Len(text[i]) = 2

\* json.loads(text) of a decodable response
Loads(text) ==
  [predicted_duration_seconds |-> text[1][2],
   predicted_duration_minutes |-> text[2][2]]

\* the model artifact: a fixed function of the feature vector
Models == {"modelA"}

Weight(m) == IF m = "modelA" THEN 3 ELSE 1

RECURSIVE Dot(_, _)
Dot(X, i) == IF i = 0 THEN 0 ELSE i * Abs(X[i]) + Dot(X, i - 1)

\* sess.run(None, {input_name: X})[0]: the raw log-scale prediction, 0..7
SessRun(m, X) == (Weight(m) * Dot(X, Len(X))) % 8

\* np.expm1 of a whole log value 0..7, in millionths
Expm1Micro ==
  <<1718282, 6389056, 19085537, 53598150, 147413159, 402428793, 1095633158>>

\* an inverse transform that leaves the 1 out: e^y instead of e^y - 1
ExpOnly(y) == IF y = 0 THEN 1000000 ELSE Expm1Micro[y] + 1000000

\* np.expm1(y) in millionths
Expm1(y) == IF y = 0 THEN 0 ELSE Expm1Micro[y]

\* round(x, 2): millionths to hundredths, ties to even
Round2(u) ==
  LET q == u \div 10000
      r == u % 10000
  IN  IF r > 5000 \/ (r = 5000 /\ q % 2 = 1) THEN q + 1 ELSE q

\* predict, steps E and F and the response object
ResponseData(m, X) ==
  LET pred_seconds == Expm1(SessRun(m, X))
  IN  [predicted_duration_seconds |-> Round2(pred_seconds),
       predicted_duration_minutes |-> Round2(pred_seconds \div 60)]

\* the exception classes the code can meet and their base classes
\* (redis.ConnectionError and redis.TimeoutError are siblings under RedisError)
BaseOf ==
  [ConnectionError |-> "RedisError", TimeoutError |-> "RedisError",
   RedisError |-> "Exception", JSONDecodeError |-> "ValueError",
   ParserError |-> "ValueError", ValueError |-> "Exception",
   AttributeError |-> "Exception", RuntimeError |-> "Exception",
   Exception |-> "BaseException", BaseException |-> "BaseException"]

RECURSIVE IsInstance(_, _)
IsInstance(exc, cls) ==
  IF exc = cls THEN TRUE
  ELSE IF exc = "BaseException" THEN FALSE
  ELSE IsInstance(BaseOf[exc], cls)

\* line 35: the class the import-time except clause names
ProbeExcept == "ConnectionError"

\* line 135: the class the except clause of predict names
PredictExcept == "Exception"

\* ------------------------------------------------------------------ state
VARIABLES
  phase,            \* "import", "imported", "serving" or "crashed"
  lifespan,         \* whether the host runs the startup hooks (uvicorn does,
                    \* TestClient(app) used without a context manager does not)
  artifact,         \* the file at MODEL_SAVE_PATH: a model or "corrupt"
  redis_available,  \* "undefined" until line 34 or 37 binds it
  probe,            \* what cache.ping() did at import: "none", "ok" or an exception
  sess,             \* "None" or the loaded model
  startup_error,    \* the exception load_model raised, or "none"
  store,            \* the Redis keyspace: key -> [value, expires]
  now,              \* the backend's clock, in seconds
  worker,           \* the requests in flight, one per worker
  calc              \* the row an offline run works on and what it derived

service == <<phase, lifespan, artifact, redis_available, probe, sess,
             startup_error, store, now, worker>>

vars == <<service, calc>>

Workers == 1..NumWorkers

RedisErrors == {"ConnectionError", "TimeoutError"}

NoPayload == [empty |-> TRUE]
NoKey == Md5(<<>>)
NoBody == [predicted_duration_seconds |-> -1, predicted_duration_minutes |-> -1]
NoEntry == [value |-> None, expires |-> 0]

Idle ==
  [pc |-> "idle", payload |-> NoPayload, cache_key |-> NoKey,
   response_data |-> NoBody, body |-> NoBody, status |-> 0, error |-> "none",
   read |-> "none", write |-> "none", infer_calls |-> 0]

\* the keys the requests of the model can have
Keys == {generate_cache_key(p) : p \in {q \in Payloads : DOMAIN q = DOMAIN KeyRank}}

\* cache.get(key): the stored text, or None when absent or expired
Get(st, key, t) ==
  IF st[key].value # None /\ t < st[key].expires THEN st[key].value ELSE None

\* a write that appends to what the key holds instead of replacing it
SetexAppend(st, key, ttl, value, t) ==
  [st EXCEPT ![key] = [value |-> IF @.value = None THEN value ELSE <<@.value, value>>,
                       expires |-> t + ttl]]

\* cache.setex(key, ttl, value)
Setex(st, key, ttl, value, t) ==
  [st EXCEPT ![key] = [value |-> value, expires |-> t + ttl]]

\* ------------------------------------------------------- offline runs
\* the rows an offline run can work on: the week of tests/test_preprocessing.py
\* (2026-01-19 is a Monday), trips that change both coordinates, one of them,
\* or none
Rows ==
  {[pickup_datetime |-> <<2026, 1, d, 10, 0, 0>>,
    pickup_longitude |-> -74, pickup_latitude |-> 40,
    dropoff_longitude |-> to[1], dropoff_latitude |-> to[2],
    passenger_count |-> n] :
     d \in 19..25,
     to \in {<<-70, 44>>, <<-74, 46>>, <<-70, 40>>, <<-74, 40>>},
     n \in {1, 2}}

\* the orders a client writes the fields of a body in: the declaration order,
\* the order of tests/integration/test_api.py, and two more
FieldOrders ==
  {TaxiInputFields,
   <<"pickup_datetime", "passenger_count", "pickup_longitude", "pickup_latitude",
     "dropoff_longitude", "dropoff_latitude">>,
   <<"pickup_datetime", "passenger_count", "dropoff_latitude", "dropoff_longitude",
     "pickup_latitude", "pickup_longitude">>,
   <<"pickup_datetime", "dropoff_longitude", "dropoff_latitude", "pickup_longitude",
     "pickup_latitude", "passenger_count">>}

\* the JSON object of a request: (name, value) members in the order written
BodyOf(row, order) == [i \in 1..Len(order) |-> <<order[i], row[order[i]]>>]

\* a parse that hands the i-th member to the i-th declared field
ParseBodyPositional(body) ==
  [f \in {TaxiInputFields[i] : i \in 1..Len(body)} |->
     body[CHOOSE i \in 1..Len(body) : TaxiInputFields[i] = f][2]]

\* FastAPI's parse of the body: every member goes to the field of its name
ParseBody(body) ==
  [f \in {body[i][1] : i \in 1..Len(body)} |->
     body[CHOOSE i \in 1..Len(body) : body[i][1] = f][2]]

\* notebooks/train.py carries its own copies of the geometry helpers
notebook_haversine_array(lat1, lng1, lat2, lng2) ==
  LET dlat == lat2 - lat1
      dlng == lng2 - lng1
      shlat == Sin(dlat \div 2)
      shlng == Sin(dlng \div 2)
      d == shlat * shlat
           + ((Cos(lat1) * Cos(lat2)) \div SCALE) * ((shlng * shlng) \div SCALE)
      dd == IF d > SCALE * SCALE THEN SCALE * SCALE ELSE d
      h == (((2 * AVG_EARTH_RADIUS * ArcSin(Sqrt(dd))) \div 1000) * 17453) \div 100000
  IN  h

\* notebooks/train.py lines 38-41: one leg along the parallel, one along the meridian
notebook_dummy_manhattan_distance(lat1, lng1, lat2, lng2) ==
  LET a == notebook_haversine_array(lat1, lng1, lat1, lng2)
      b == notebook_haversine_array(lat1, lng1, lat2, lng1)
  IN  a + b

notebook_calculate_bearing(lat1, lng1, lat2, lng2) ==
  calculate_bearing(lat1, lng1, lat2, lng2)

\* notebooks/train.py lines 79-108: the columns load_and_prep_data derives for
\* a row it keeps (its filters drop rows and leave the kept ones' values alone)
load_and_prep_data(df) ==
  LET ts  == df.pickup_datetime
      dow == DayOfWeek(ts)
  IN  [month |-> ts[2],
       day_of_week |-> dow,
       hour |-> ts[4],
       is_weekend |-> IF dow >= 5 THEN 1 ELSE 0,
       distance_haversine |->
         notebook_haversine_array(df.pickup_latitude, df.pickup_longitude,
                                  df.dropoff_latitude, df.dropoff_longitude),
       distance_manhattan |->
         notebook_dummy_manhattan_distance(df.pickup_latitude, df.pickup_longitude,
                                           df.dropoff_latitude, df.dropoff_longitude),
       bearing |->
         notebook_calculate_bearing(df.pickup_latitude, df.pickup_longitude,
                                    df.dropoff_latitude, df.dropoff_longitude),
       passenger_count |-> df.passenger_count,
       pickup_longitude |-> df.pickup_longitude,
       pickup_latitude |-> df.pickup_latitude,
       dropoff_longitude |-> df.dropoff_longitude,
       dropoff_latitude |-> df.dropoff_latitude]

\* notebooks/train.py lines 111-116
notebook_features ==
  <<"passenger_count", "pickup_longitude", "pickup_latitude",
    "dropoff_longitude", "dropoff_latitude",
    "month", "day_of_week", "hour", "is_weekend",
    "distance_haversine", "distance_manhattan", "bearing">>

\* pipelines/training_pipeline.py line 59: the pipeline calls the shared component
run_training(df) == create_features(df)

\* pipelines/training_pipeline.py lines 72-85
pipeline_features ==
  <<"passenger_count",
    "pickup_longitude",
    "pickup_latitude",
    "dropoff_longitude",
    "dropoff_latitude",
    "month",
    "day_of_week",
    "hour",
    "is_weekend",
    "distance_haversine",
    "distance_manhattan",
    "bearing">>

\* components/model_trainer.py lines 20-25
trainer_features ==
  <<"passenger_count", "pickup_longitude", "pickup_latitude",
    "dropoff_longitude", "dropoff_latitude",
    "month", "day_of_week", "hour", "is_weekend",
    "distance_haversine", "distance_manhattan", "bearing">>

\* X = df[columns]: the row as an ordered vector
Select(df, columns) == [i \in 1..Len(columns) |-> df[columns[i]]]

\* e^y in millionths, y = 0..7
ExpMicro ==
  <<1000000, 2718282, 7389056, 20085537, 54598150, 148413159, 403428793,
    1096633158>>

\* the natural logarithm of v millionths, rounded down to the grid of the
\* model outputs
Ln(v) ==
  CHOOSE y \in 0..(Len(ExpMicro) - 1) :
    /\ ExpMicro[y + 1] <= v
    /\ (y + 1 = Len(ExpMicro) \/ v < ExpMicro[y + 2])

\* np.log1p(x), x in millionths of a second
Log1p(x) == Ln(x + ExpMicro[1])

\* the durations of the training rows: the ones whose logarithm is on the grid
\* and that load_and_clean_data keeps (60 s to 10800 s)
TripDurations == {Expm1Micro[y] : y \in 5..7}

NoFeatures == [f \in {features[i] : i \in 1..Len(features)} |-> 0]

CalcOff ==
  [stage |-> "off", row |-> NoPayload, body |-> <<>>, trip_duration |-> 0,
   cache_key |-> NoKey,
   train |-> NoFeatures, train_X |-> <<>>, train_y |-> -1,
   notebook |-> NoFeatures, notebook_X |-> <<>>, notebook_y |-> -1,
   serve |-> NoFeatures, X_input |-> <<>>,
   response_data |-> NoBody, round_trip |-> -1,
   there |-> -1, back |-> -1, at_pickup |-> -1, at_dropoff |-> -1]

Init ==
  /\ phase = "import"
  /\ lifespan \in BOOLEAN
  /\ artifact \in Models \cup {"corrupt"}
  /\ (~lifespan => artifact \in Models)   \* the file is read by load_model only
  /\ redis_available = "undefined"
  /\ probe = "none"
  /\ sess = "None"
  /\ startup_error = "none"
  /\ store = [k \in Keys |-> NoEntry]
  /\ now = 0
  /\ worker = [w \in Workers |-> Idle]
  /\ calc = CalcOff

\* a probe that is also run again whenever a cache call of a request has failed
ProbeRedisAgain ==
  /\ \/ phase = "import"
     \/ \E w \in Workers : worker[w].error \in RedisErrors
  /\ \E outcome \in {"ok"} \cup RedisErrors :
       /\ probe' = outcome
       /\ IF outcome = "ok"
            THEN redis_available' = "True" /\ phase' = "imported"
            ELSE IF IsInstance(outcome, ProbeExcept)
              THEN redis_available' = "False" /\ phase' = "imported"
              ELSE redis_available' = redis_available /\ phase' = "crashed"
  /\ UNCHANGED <<calc, lifespan, artifact, sess, startup_error, store, now, worker>>

\* lines 29-37: the connection probe run when the module is imported
ProbeRedis ==
  /\ phase = "import"
  /\ \E outcome \in {"ok"} \cup RedisErrors :
       /\ probe' = outcome
       /\ IF outcome = "ok"
            THEN redis_available' = "True" /\ phase' = "imported"
            ELSE IF IsInstance(outcome, ProbeExcept)
              THEN redis_available' = "False" /\ phase' = "imported"
              ELSE redis_available' = redis_available /\ phase' = "crashed"
  /\ UNCHANGED <<calc, lifespan, artifact, sess, startup_error, store, now, worker>>

\* a load_model that logs the failure and does not re-raise it
LoadModelSwallow(file) ==
  IF file \in Models THEN <<file, "none">> ELSE <<"None", "none">>

\* what load_model leaves behind: <<sess, the exception it raised>>
LoadModelResult(file) ==
  IF file \in Models THEN <<file, "none">> ELSE <<"None", "RuntimeError">>

\* lines 45-56: the startup hook; an exception it raises ends the process
load_model ==
  /\ phase = "imported"
  /\ lifespan
  /\ LET r == LoadModelResult(artifact)
     IN  /\ sess' = r[1]
         /\ startup_error' = r[2]
         /\ phase' = IF r[2] = "none" THEN "serving" ELSE "crashed"
  /\ UNCHANGED <<calc, lifespan, artifact, redis_available, probe, store, now, worker>>

\* the application takes requests
Accepting == phase = "serving" \/ (phase = "imported" /\ ~lifespan)

\* the handler's except clause (lines 135-137): the response of a raised exception
Raise(rec, exc) ==
  IF IsInstance(exc, PredictExcept)
    THEN [rec EXCEPT !.pc = "done", !.status = 500, !.error = exc]
    ELSE [rec EXCEPT !.pc = "done", !.status = 0, !.error = exc]

\* lines 81-82: a request arrives and FastAPI validates its body
Receive(w, payload) ==
  /\ Accepting
  /\ worker[w].pc = "idle"
  /\ worker' = [worker EXCEPT ![w] =
       IF ValidTaxiInput(payload)
         THEN [Idle EXCEPT !.pc = "check", !.payload = payload]
         ELSE [Idle EXCEPT !.pc = "done", !.payload = payload, !.status = 422,
                           !.error = "RequestValidationError"]]
  /\ UNCHANGED <<calc, phase, lifespan, artifact, redis_available, probe, sess,
                 startup_error, store, now>>

\* a lookup that reads the cache and goes on to inference even on a hit
CheckStepNoHit(rec, outcome, st, t) ==
  LET cache_key == generate_cache_key(TaxiInput(rec.payload))
      r == [rec EXCEPT !.cache_key = cache_key]
  IN  IF outcome \in RedisErrors
        THEN Raise([r EXCEPT !.read = outcome], outcome)
        ELSE [r EXCEPT !.pc = "compute", !.read = "miss"]

\* lines 84-92 given what cache.get did
CheckStep(rec, outcome, st, t) ==
  LET data == TaxiInput(rec.payload)
      cache_key == generate_cache_key(data)
      cached_result == IF outcome = "garbage" THEN Garbage ELSE Get(st, cache_key, t)
      r == [rec EXCEPT !.cache_key = cache_key]
  IN  IF outcome \in RedisErrors
        THEN Raise([r EXCEPT !.read = outcome], outcome)
      ELSE IF Truthy(cached_result)
        THEN IF CanLoad(cached_result)
               THEN [r EXCEPT !.pc = "done", !.status = 200, !.read = "hit",
                              !.body = Loads(cached_result)]
               ELSE Raise([r EXCEPT !.read = "garbage"], "JSONDecodeError")
      ELSE [r EXCEPT !.pc = "compute", !.read = "miss"]

\* a lookup that does not test redis_available
CacheCheckAlways(w) ==
  /\ worker[w].pc = "check"
  /\ \E outcome \in {"ok", "garbage"} \cup RedisErrors :
       worker' = [worker EXCEPT ![w] = CheckStep(worker[w], outcome, store, now)]
  /\ UNCHANGED <<calc, phase, lifespan, artifact, redis_available, probe, sess,
                 startup_error, store, now>>

\* a lookup that gives the entry it found a fresh time to live
CacheCheckRefresh(w) ==
  /\ worker[w].pc = "check"
  /\ IF redis_available = "True"
       THEN \E outcome \in {"ok", "garbage"} \cup RedisErrors :
              worker' = [worker EXCEPT ![w] = CheckStep(worker[w], outcome, store, now)]
       ELSE worker' = [worker EXCEPT ![w].pc = "compute"]
  /\ store' = IF worker'[w].read = "hit"
                THEN [store EXCEPT ![worker'[w].cache_key].expires = now + CACHE_TTL]
                ELSE store
  /\ UNCHANGED <<calc, phase, lifespan, artifact, redis_available, probe, sess,
                 startup_error, now>>

\* lines 84-92: the cache lookup
CacheCheck(w) ==
  /\ worker[w].pc = "check"
  /\ IF redis_available = "True"
       THEN \E outcome \in {"ok", "garbage"} \cup RedisErrors :
              worker' = [worker EXCEPT ![w] = CheckStep(worker[w], outcome, store, now)]
       ELSE worker' = [worker EXCEPT ![w].pc = "compute"]
  /\ UNCHANGED <<calc, phase, lifespan, artifact, redis_available, probe, sess,
                 startup_error, store, now>>

\* a compute step that answers a failed sess.run by calling it a second time
ComputeStepRetry(rec, outcome, session, available) ==
  LET data == TaxiInput(rec.payload)
  IN  IF ~CanParse(data.pickup_datetime)
        THEN Raise(rec, "ParserError")
      ELSE IF session = "None"
        THEN Raise(rec, "AttributeError")
      ELSE IF outcome # "ok"
        THEN Raise([rec EXCEPT !.infer_calls = @ + 2], outcome)
      ELSE LET response_data == ResponseData(session, X_input(create_features(data)))
               r == [rec EXCEPT !.infer_calls = @ + 1, !.response_data = response_data]
           IN  IF available = "True"
                 THEN [r EXCEPT !.pc = "store"]
                 ELSE [r EXCEPT !.pc = "done", !.status = 200, !.body = response_data]

\* lines 96-126 given what sess.run did
ComputeStep(rec, outcome, session, available) ==
  LET data == TaxiInput(rec.payload)
  IN  IF ~CanParse(data.pickup_datetime)
        THEN Raise(rec, "ParserError")
      ELSE IF session = "None"
        THEN Raise(rec, "AttributeError")
      ELSE IF outcome # "ok"
        THEN Raise([rec EXCEPT !.infer_calls = @ + 1], outcome)
      ELSE LET response_data == ResponseData(session, X_input(create_features(data)))
               r == [rec EXCEPT !.infer_calls = @ + 1, !.response_data = response_data]
           IN  IF available = "True"
                 THEN [r EXCEPT !.pc = "store"]
                 ELSE [r EXCEPT !.pc = "done", !.status = 200, !.body = response_data]

\* a compute step that leaves a marker under the key when inference raises
ComputeMarkFailure(w) ==
  /\ worker[w].pc = "compute"
  /\ \E outcome \in {"ok", "RuntimeError"} :
       /\ worker' = [worker EXCEPT ![w] = ComputeStep(worker[w], outcome, sess, redis_available)]
       /\ store' = IF worker'[w].error = "RuntimeError" /\ redis_available = "True"
                     THEN Setex(store, worker[w].cache_key, CACHE_TTL, Dumps(NoBody), now)
                     ELSE store
  /\ UNCHANGED <<calc, phase, lifespan, artifact, redis_available, probe, sess,
                 startup_error, now>>

\* lines 96-126: feature engineering, inference and the response object
Compute(w) ==
  /\ worker[w].pc = "compute"
  /\ \E outcome \in {"ok", "RuntimeError"} :
       worker' = [worker EXCEPT ![w] = ComputeStep(worker[w], outcome, sess, redis_available)]
  /\ UNCHANGED <<calc, phase, lifespan, artifact, redis_available, probe, sess,
                 startup_error, store, now>>

\* lines 128-133 given what cache.setex did
StoreStep(rec, outcome) ==
  IF outcome \in RedisErrors
    THEN Raise([rec EXCEPT !.write = outcome], outcome)
    ELSE [rec EXCEPT !.pc = "done", !.status = 200, !.write = "ok",
                     !.body = rec.response_data]

\* lines 128-133: the cache write and the return
CacheStore(w) ==
  /\ worker[w].pc = "store"
  /\ \E outcome \in {"ok"} \cup RedisErrors :
       /\ worker' = [worker EXCEPT ![w] = StoreStep(worker[w], outcome)]
       /\ store' = IF outcome = "ok"
                     THEN Setex(store, worker[w].cache_key, CACHE_TTL,
                                Dumps(worker[w].response_data), now)
                     ELSE store
  /\ UNCHANGED <<calc, phase, lifespan, artifact, redis_available, probe, sess,
                 startup_error, now>>

\* the response leaves and the worker is free again
Respond(w) ==
  /\ worker[w].pc = "done"
  /\ worker' = [worker EXCEPT ![w] = Idle]
  /\ UNCHANGED <<calc, phase, lifespan, artifact, redis_available, probe, sess,
                 startup_error, store, now>>

\* the backend drops the keys whose time to live has run out
Expire(st, t) ==
  [k \in DOMAIN st |-> IF st[k].value # None /\ st[k].expires <= t THEN NoEntry ELSE st[k]]

\* time passes at the cache backend
Tick ==
  /\ now < MaxTicks * TickSeconds
  /\ now' = now + TickSeconds
  /\ store' = Expire(store, now')
  /\ UNCHANGED <<calc, phase, lifespan, artifact, redis_available, probe, sess,
                 startup_error, worker>>

Next ==
  \/ ProbeRedis
  \/ load_model
  \/ \E w \in Workers, payload \in Payloads : Receive(w, payload)
  \/ \E w \in Workers : CacheCheck(w)
  \/ \E w \in Workers : Compute(w)
  \/ \E w \in Workers : CacheStore(w)
  \/ \E w \in Workers : Respond(w)
  \/ Tick

Spec == Init /\ [][Next]_vars

\* ------------------------------------------ the pure functions, applied
\* an offline run takes one row, written as a body in some field order and
\* labelled with a trip duration; the service stays as it is before import
OfflineInit ==
  /\ phase = "import"
  /\ lifespan = TRUE
  /\ artifact \in Models
  /\ redis_available = "undefined"
  /\ probe = "none"
  /\ sess = "None"
  /\ startup_error = "none"
  /\ store = [k \in Keys |-> NoEntry]
  /\ now = 0
  /\ worker = [w \in Workers |-> Idle]
  /\ \E row \in Rows, order \in FieldOrders, x \in TripDurations :
       calc = [CalcOff EXCEPT !.stage = "start", !.row = row,
                              !.body = BodyOf(row, order), !.trip_duration = x]

\* main.py lines 59-63 on the parsed body
DeriveKey ==
  /\ calc.stage = "start"
  /\ calc' = [calc EXCEPT !.stage = "keyed",
                          !.cache_key = generate_cache_key(TaxiInput(ParseBody(calc.body)))]
  /\ UNCHANGED service

\* training_pipeline.py lines 59-88: features, target and the matrix to fit
FitPipeline ==
  /\ calc.stage = "keyed"
  /\ LET df_processed == run_training(calc.row)
     IN  calc' = [calc EXCEPT !.stage = "trained",
                              !.train = df_processed,
                              !.train_X = Select(df_processed, pipeline_features),
                              !.train_y = Log1p(calc.trip_duration)]
  /\ UNCHANGED service

\* notebooks/train.py lines 79-122: the same for the notebook trainer
FitNotebook ==
  /\ calc.stage = "trained"
  /\ LET df == load_and_prep_data(calc.row)
     IN  calc' = [calc EXCEPT !.stage = "notebook",
                              !.notebook = df,
                              !.notebook_X = Select(df, notebook_features),
                              !.notebook_y = Log1p(calc.trip_duration)]
  /\ UNCHANGED service

\* main.py lines 96-112: predict, steps A to D, on the parsed body
ServeRow ==
  /\ calc.stage = "notebook"
  /\ LET df_processed == create_features(TaxiInput(ParseBody(calc.body)))
     IN  calc' = [calc EXCEPT !.stage = "served",
                              !.serve = df_processed,
                              !.X_input = X_input(df_processed)]
  /\ UNCHANGED service

\* main.py lines 114-124: inference and the inverse transform, on the vector
\* of the row and on a raw output equal to the row's training target
InverseTransform ==
  /\ calc.stage = "served"
  /\ calc' = [calc EXCEPT !.stage = "done",
                          !.response_data = ResponseData(artifact, calc.X_input),
                          !.round_trip = Expm1(calc.train_y)]
  /\ UNCHANGED service

\* geo_utils.py lines 4-12 applied to the row's endpoints in both directions
\* and to each endpoint with itself
MeasureDistances ==
  /\ calc.stage = "done"
  /\ LET lat1 == calc.row.pickup_latitude
         lng1 == calc.row.pickup_longitude
         lat2 == calc.row.dropoff_latitude
         lng2 == calc.row.dropoff_longitude
     IN  calc' = [calc EXCEPT !.stage = "measured",
                              !.there = haversine_array(lat1, lng1, lat2, lng2),
                              !.back = haversine_array(lat2, lng2, lat1, lng1),
                              !.at_pickup = haversine_array(lat1, lng1, lat1, lng1),
                              !.at_dropoff = haversine_array(lat2, lng2, lat2, lng2)]
  /\ UNCHANGED service

OfflineNext ==
  \/ DeriveKey
  \/ FitPipeline
  \/ FitNotebook
  \/ ServeRow
  \/ InverseTransform
  \/ MeasureDistances

OfflineSpec == OfflineInit /\ [][OfflineNext]_vars

\* ----------------------------------------------------------- properties
RequiredFields ==
  {"pickup_datetime", "pickup_longitude", "pickup_latitude",
   "dropoff_longitude", "dropoff_latitude", "passenger_count"}

HasAllFields(p) == \A f \in RequiredFields : f \in DOMAIN p

\* a body with every field and a timestamp that parses
WellFormed(p) == HasAllFields(p) /\ CanParse(p.pickup_datetime)

\* the prediction inference gives for a well-formed body under the loaded model
Prediction(p) == ResponseData(sess, X_input(create_features(TaxiInput(p))))

Done(w) == worker[w].pc = "done"

CacheFailures == RedisErrors \cup {"garbage"}

CacheExceptions == RedisErrors \cup {"JSONDecodeError"}

\* C1: with the cache available, a request that misses runs inference once and
\* its store step leaves its response under its key; a lookup that finds a live
\* entry under the request's key (the read itself succeeding) ends the request
\* with the stored response and without any inference call.
C1_CacheAside ==
  [][\A w \in Workers :
       LET key == generate_cache_key(TaxiInput(worker[w].payload))
       IN  /\ ( /\ worker[w].pc = "store"
                /\ worker'[w].pc = "done"
                /\ worker'[w].write = "ok" )
              => /\ worker[w].read = "miss"
                 /\ worker[w].infer_calls = 1
                 /\ worker[w].cache_key = key
                 /\ worker'[w].status = 200
                 /\ Get(store', key, now) = Dumps(worker'[w].body)
                 /\ store'[key].expires = now + CACHE_TTL
           /\ ( /\ worker[w].pc = "check"
                /\ worker'[w].pc # "check"
                /\ redis_available = "True"
                /\ Get(store, key, now) # None
                /\ worker'[w].read \notin CacheFailures )
              => /\ worker'[w].pc = "done"
                 /\ worker'[w].status = 200
                 /\ worker'[w].read = "hit"
                 /\ Dumps(worker'[w].body) = Get(store, key, now)
                 /\ worker'[w].infer_calls = 0
    ]_vars

\* a request answered from the cache, with no inference call, after an earlier
\* request computed and stored the entry
C1_Witness ==
  \E w \in Workers :
    /\ Done(w) /\ worker[w].read = "hit" /\ worker[w].status = 200
    /\ worker[w].infer_calls = 0
    /\ store[worker[w].cache_key].value = Dumps(worker[w].body)

\* C2: after a successful startup, a failed or undecodable cache read of a
\* well-formed request (model loaded) is not surfaced: the request goes on to
\* inference and, inference succeeding, returns the prediction.
C2_ReadFailureIsMiss ==
  \A w \in Workers :
    ( /\ Done(w)
      /\ redis_available = "True"
      /\ sess # "None"
      /\ WellFormed(worker[w].payload)
      /\ worker[w].read \in CacheFailures )
    => /\ worker[w].error \notin CacheExceptions
       /\ worker[w].infer_calls = 1
       /\ (worker[w].error = "none"
             => worker[w].status = 200 /\ worker[w].body = Prediction(worker[w].payload))

\* C3: after a successful startup, a failed cache write is ignored: the request
\* still returns the prediction it computed, as a successful response.
C3_WriteFailureIgnored ==
  \A w \in Workers :
    ( /\ Done(w)
      /\ redis_available = "True"
      /\ worker[w].write \in RedisErrors )
    => /\ worker[w].status = 200
       /\ worker[w].body = worker[w].response_data

\* C4: with the cache found unreachable at startup, no request attempts a cache
\* read or write and the cache is left untouched; a well-formed request (model
\* loaded, inference not raising) returns the prediction inference computed.
C4_UnavailableFallback ==
  redis_available = "False" =>
    /\ \A k \in Keys : store[k] = NoEntry
    /\ \A w \in Workers :
         /\ worker[w].read = "none"
         /\ worker[w].write = "none"
         /\ worker[w].pc # "store"
         /\ ( /\ Done(w)
              /\ WellFormed(worker[w].payload)
              /\ sess # "None"
              /\ worker[w].error # "RuntimeError" )
            => /\ worker[w].status = 200
               /\ worker[w].infer_calls = 1
               /\ worker[w].body = Prediction(worker[w].payload)

\* a well-formed request answered by inference while the cache is unavailable
C4_Witness ==
  /\ redis_available = "False"
  /\ probe = "ConnectionError"
  /\ \E w \in Workers :
       /\ Done(w) /\ WellFormed(worker[w].payload)
       /\ worker[w].status = 200 /\ worker[w].infer_calls = 1

\* C5: a cache backend unreachable at startup, by a refused connection or by a
\* connect timeout, does not end the process: the import completes with
\* redis_available false (only a failed model load may end it afterwards).
C5_ProbeFailureSurvived ==
  probe \in RedisErrors =>
    /\ redis_available = "False"
    /\ (phase = "crashed" => startup_error # "none")

\* C6: a request whose pickup_datetime does not parse is answered with a 4xx
\* status, with no cache access and no inference call made for it (stated for
\* the requests no cache failure has ended, with the model loaded).
C6_BadTimestampRejected ==
  \A w \in Workers :
    ( /\ Done(w)
      /\ HasAllFields(worker[w].payload)
      /\ ~CanParse(worker[w].payload.pickup_datetime)
      /\ sess # "None"
      /\ worker[w].error \notin CacheExceptions )
    => /\ worker[w].status \in 400..499
       /\ worker[w].read = "none"
       /\ worker[w].write = "none"
       /\ worker[w].infer_calls = 0

\* C7: a request missing a required field is answered 422, never 5xx, and
\* never reaches the cache lookup or the inference call.
C7_MissingField422 ==
  \A w \in Workers :
    ( /\ worker[w].pc # "idle"
      /\ ~HasAllFields(worker[w].payload) )
    => /\ Done(w)
       /\ worker[w].status = 422
       /\ worker[w].read = "none"
       /\ worker[w].write = "none"
       /\ worker[w].cache_key = NoKey
       /\ worker[w].infer_calls = 0

\* a request without its coordinates has been answered
C7_Witness ==
  \E w \in Workers :
    /\ Done(w) /\ worker[w].payload = PayloadMissing /\ worker[w].status = 422

\* C8: a request handled while sess is not initialised is answered 503,
\* whatever the state of the cache (stated for the well-formed requests no
\* cache failure has ended).
C8_NoModel503 ==
  \A w \in Workers :
    ( /\ Done(w)
      /\ WellFormed(worker[w].payload)
      /\ worker[w].error \notin CacheExceptions
      /\ sess = "None" )
    => worker[w].status = 503

\* C9: when the model artifact cannot be loaded, load_model raises, startup ends
\* with the process stopped, and from then on no request is ever accepted.
C9_LoadFailureFatal ==
  [][ /\ ( /\ phase = "imported"
           /\ phase' # "imported"
           /\ artifact \notin Models )
         => /\ startup_error' # "none"
            /\ phase' = "crashed"
            /\ sess' = "None"
      /\ ( \/ startup_error # "none"
           \/ (artifact \notin Models /\ phase \notin {"import", "imported"}) )
         => /\ phase' = "crashed"
            /\ \A w \in Workers : worker[w] = Idle /\ worker'[w] = Idle
    ]_vars

\* the startup hook has failed on a corrupt artifact
C9_Witness ==
  /\ artifact = "corrupt" /\ startup_error = "RuntimeError" /\ phase = "crashed"
  /\ \A w \in Workers : worker[w] = Idle

\* C10: under the one loaded model every successful response is the prediction
\* of its request's field values, by inference or from the cache, so any two
\* successful responses to equal requests are equal.
C10_SameRequestSameResponse ==
  /\ \A w \in Workers :
       (Done(w) /\ worker[w].status = 200)
         => worker[w].body = Prediction(worker[w].payload)
  /\ \A w, v \in Workers :
       ( /\ Done(w) /\ worker[w].status = 200
         /\ Done(v) /\ worker[v].status = 200
         /\ worker[w].payload = worker[v].payload )
       => worker[w].body = worker[v].body

\* two equal requests answered at once, one by inference and one from the cache
C10_Witness ==
  \E w, v \in Workers :
    /\ w # v
    /\ Done(w) /\ worker[w].status = 200 /\ worker[w].read = "miss"
    /\ Done(v) /\ worker[v].status = 200 /\ worker[v].read = "hit"
    /\ worker[w].payload = worker[v].payload
    /\ worker[w].body = worker[v].body

C12_RacingMissesAgree ==
  \A w, v \in Workers :
    ( /\ w # v
      /\ worker[w].payload = worker[v].payload
      /\ worker[w].read = "miss" /\ worker[v].read = "miss"
      /\ worker[w].response_data # NoBody /\ worker[v].response_data # NoBody )
    => /\ worker[w].response_data = worker[v].response_data
       /\ (Done(w) /\ Done(v) /\ worker[w].status = 200 /\ worker[v].status = 200)
            => worker[w].body = worker[v].body
       /\ store[worker[w].cache_key].value # None
            => /\ store[worker[w].cache_key].value = Dumps(worker[w].response_data)
               /\ store[worker[w].cache_key].value = Dumps(worker[v].response_data)

\* both requests missed before either wrote, both have written and answered
C12_Witness ==
  \E w, v \in Workers :
    /\ w # v /\ now = 0
    /\ worker[w].payload = worker[v].payload
    /\ Done(w) /\ worker[w].read = "miss" /\ worker[w].write = "ok"
    /\ Done(v) /\ worker[v].read = "miss" /\ worker[v].write = "ok"
    /\ worker[w].body = worker[v].body
    /\ Get(store, worker[w].cache_key, now) = Dumps(worker[w].body)

\* C13: every write of a cache entry gives it 3600 seconds to live; an entry
\* whose time has run out is gone from the keyspace, and a lookup under a key
\* with no live entry (the read itself succeeding) is a miss that goes on to
\* inference, whose store step writes the entry again with 3600 seconds.
C13_ExpiredIsAbsent ==
  [][ /\ \A k \in Keys :
           /\ (store'[k] # store[k] /\ store'[k].value # None)
                => store'[k].expires = now + 3600
           /\ (store[k].value # None /\ store[k].expires <= now')
                => store'[k] = NoEntry
           /\ store'[k].value # None => now' < store'[k].expires
      /\ \A w \in Workers :
           LET key == generate_cache_key(TaxiInput(worker[w].payload))
           IN  /\ ( /\ worker[w].pc = "check" /\ worker'[w].pc # "check"
                    /\ redis_available = "True"
                    /\ ~(store[key].value # None /\ now < store[key].expires)
                    /\ worker'[w].read \notin CacheFailures )
                  => /\ worker'[w].pc = "compute"
                     /\ worker'[w].read = "miss"
                     /\ worker'[w].infer_calls = 0
               /\ ( /\ worker[w].pc = "store" /\ worker'[w].write = "ok" )
                  => /\ worker[w].infer_calls = 1
                     /\ store'[key] = [value |-> Dumps(worker[w].response_data),
                                       expires |-> now + 3600]
    ]_vars

\* an entry that answered a request has since run out of time and is gone,
\* and the next request with the same field values is at its lookup
C13_Witness ==
  \E w, v \in Workers :
    /\ w # v
    /\ now >= 3600
    /\ Done(w) /\ worker[w].read = "hit" /\ worker[w].status = 200
    /\ store[worker[w].cache_key] = NoEntry
    /\ worker[v].pc = "check" /\ worker[v].payload = worker[w].payload

\* C18: once the import-time probe has bound redis_available, no step changes
\* it or the probe's outcome: not a request, not a failing cache call, not the
\* passing of time; and nothing probes again.
C18_AvailabilityDecidedOnce ==
  [][ /\ redis_available # "undefined"
           => (redis_available' = redis_available /\ probe' = probe)
      /\ probe # "none" => probe' = probe
      /\ redis_available' # redis_available
           => (phase = "import" /\ \A w \in Workers : worker[w] = Idle)
    ]_vars

\* a cache call of a request has failed after the probe found the cache up
C18_Witness ==
  /\ redis_available = "True" /\ probe = "ok"
  /\ now > 0
  /\ \E w \in Workers : Done(w) /\ worker[w].error \in RedisErrors

\* C20: a request calls inference at most once, and one whose inference call
\* raised on a well-formed vector ends as a 500 after that single call,
\* with no prediction and nothing written to the cache.
C20_InferenceFailureNotRetried ==
  \A w \in Workers :
    /\ worker[w].infer_calls <= 1
    /\ worker[w].error = "RuntimeError"
         => /\ Done(w)
            /\ worker[w].status = 500
            /\ worker[w].infer_calls = 1
            /\ worker[w].response_data = NoBody
            /\ worker[w].body = NoBody
            /\ worker[w].write = "none"
            /\ WellFormed(worker[w].payload)

\* inference has raised for a request that missed the cache
C20_Witness ==
  \E w \in Workers :
    /\ Done(w) /\ worker[w].error = "RuntimeError" /\ worker[w].status = 500
    /\ worker[w].read = "miss" /\ worker[w].infer_calls = 1
    /\ sess # "None"

\* C14: for raw model output y the response carries exp(y) - 1 seconds and a
\* sixtieth of that as minutes, each rounded to two decimals, and this inverse
\* transform undoes the training target's log(1 + x): a raw output equal to
\* the target of a row gives back the row's trip duration.
C14_InverseLogTransform ==
  calc.stage = "done"
    => LET y == SessRun(artifact, calc.X_input)
           seconds == ExpMicro[y + 1] - ExpMicro[1]
       IN  /\ calc.response_data.predicted_duration_seconds = Round2(seconds)
           /\ calc.response_data.predicted_duration_minutes = Round2(seconds \div 60)
           /\ calc.train_y = calc.notebook_y
           /\ ExpMicro[calc.train_y + 1] = calc.trip_duration + ExpMicro[1]
           /\ calc.round_trip = calc.trip_duration

\* a response for a non-zero raw output, next to a round trip of a duration
C14_Witness ==
  /\ calc.stage = "done"
  /\ SessRun(artifact, calc.X_input) > 0
  /\ calc.response_data.predicted_duration_seconds > 0
  /\ calc.response_data.predicted_duration_minutes > 0
  /\ calc.trip_duration = Expm1Micro[6]
  /\ calc.round_trip = calc.trip_duration

\* C15: the distance_manhattan of a row is the sum of two axis-aligned
\* haversine legs, one along the pickup's parallel and one along its meridian.
C15_ManhattanIsTwoLegs ==
  calc.stage \in {"served", "done"}
    => LET lat1 == calc.row.pickup_latitude
           lng1 == calc.row.pickup_longitude
           lat2 == calc.row.dropoff_latitude
           lng2 == calc.row.dropoff_longitude
       IN  calc.serve.distance_manhattan
             = haversine_array(lat1, lng1, lat1, lng2)
               + haversine_array(lat1, lng1, lat2, lng1)

\* C16: the columns each training path derives for a row are the columns
\* create_features derives for it in predict.
C16_TrainingEqualsServing ==
  calc.stage = "done"
    => /\ calc.train = calc.serve
       /\ calc.notebook = calc.serve

\* C17: the vector given to inference is the row's twelve columns in the
\* order passenger_count, pickup_longitude, pickup_latitude,
\* dropoff_longitude, dropoff_latitude, month, day_of_week, hour, is_weekend,
\* distance_haversine, distance_manhattan, bearing, and every training path
\* selects its matrix with that same ordered list.
C17_FeatureOrder ==
  LET order == <<"passenger_count", "pickup_longitude", "pickup_latitude",
                 "dropoff_longitude", "dropoff_latitude", "month",
                 "day_of_week", "hour", "is_weekend", "distance_haversine",
                 "distance_manhattan", "bearing">>
  IN  calc.stage \in {"served", "done"}
        => /\ Len(calc.X_input) = 12
           /\ \A i \in 1..12 : calc.X_input[i] = calc.serve[order[i]]
           /\ \A i \in 1..12 : calc.train_X[i] = calc.train[order[i]]
           /\ \A i \in 1..12 : calc.notebook_X[i] = calc.notebook[order[i]]
           /\ Len(calc.train_X) = 12 /\ Len(calc.notebook_X) = 12
           /\ features = order
           /\ pipeline_features = features
           /\ notebook_features = features
           /\ trainer_features = features

\* a vector whose entries tell the columns apart
C17_Witness ==
  /\ calc.stage = "served"
  /\ calc.X_input[1] = 2 /\ calc.X_input[2] = -74 /\ calc.X_input[3] = 40
  /\ calc.X_input[4] = -70 /\ calc.X_input[5] = 44
  /\ calc.X_input[6] = 1 /\ calc.X_input[7] = 5 /\ calc.X_input[8] = 10
  /\ calc.X_input[9] = 1
  /\ calc.X_input[10] > 0 /\ calc.X_input[11] > calc.X_input[10]
  /\ calc.X_input[12] = calc.serve.bearing
  /\ calc.train_X = calc.X_input

\* C19: is_weekend is 1 exactly when day_of_week, counted from Monday = 0, is
\* 5 or 6; a pickup on Tuesday 2026-01-20 has day_of_week 1 and is_weekend 0,
\* one on Saturday 2026-01-24 has is_weekend 1.
C19_WeekendFlag ==
  calc.stage \in {"served", "done"}
    => LET day == calc.row.pickup_datetime[3]
           dow == (day - 19) % 7      \* 2026-01-19 is a Monday
       IN  /\ calc.serve.day_of_week = dow
           /\ calc.serve.is_weekend = (IF dow \in {5, 6} THEN 1 ELSE 0)
           /\ calc.serve.is_weekend \in {0, 1}
           /\ day = 20 => (calc.serve.day_of_week = 1 /\ calc.serve.is_weekend = 0)
           /\ day = 24 => calc.serve.is_weekend = 1
           /\ day = 25 => (calc.serve.day_of_week = 6 /\ calc.serve.is_weekend = 1)

\* the Saturday of the unit test
C19_Witness ==
  /\ calc.stage = "served"
  /\ calc.row.pickup_datetime = <<2026, 1, 24, 10, 0, 0>>
  /\ calc.serve.day_of_week = 5
  /\ calc.serve.is_weekend = 1

\* points around the rows' endpoints, as <<lat, lng>>
GeoGrid == {<<lat, lng>> : lat \in {36, 38, 40, 42, 44, 46}, lng \in {-78, -76, -74, -72, -70}}

\* C21: the haversine distance from a point to itself is 0, and the distance
\* from a to b is the distance from b to a; also between the row's dropoff
\* and every point of a grid around it.
C21_HaversineZeroAndSymmetric ==
  calc.stage = "measured"
    => /\ calc.at_pickup = 0
       /\ \A q \in GeoGrid :
            LET lat == calc.row.dropoff_latitude
                lng == calc.row.dropoff_longitude
            IN  /\ haversine_array(lat, lng, q[1], q[2])
                     = haversine_array(q[1], q[2], lat, lng)
                /\ haversine_array(q[1], q[2], q[1], q[2]) = 0
                /\ (q # <<lat, lng>>) => haversine_array(lat, lng, q[1], q[2]) > 0
       /\ calc.at_dropoff = 0
       /\ calc.back = calc.there
       /\ calc.there = calc.serve.distance_haversine
       /\ ( /\ calc.row.pickup_latitude = calc.row.dropoff_latitude
            /\ calc.row.pickup_longitude = calc.row.dropoff_longitude )
          => calc.there = 0

\* a trip that changes both coordinates, measured in both directions
C21_Witness ==
  /\ calc.stage = "measured"
  /\ calc.row.pickup_latitude # calc.row.dropoff_latitude
  /\ calc.row.pickup_longitude # calc.row.dropoff_longitude
  /\ calc.there > 0
  /\ calc.back = calc.there
  /\ calc.at_pickup = 0 /\ calc.at_dropoff = 0

\* C22: a step that ends a request with an error response leaves the cache as
\* it was; the only step that puts a value under a key is the store step of a
\* request whose single inference call succeeded, and it puts there the
\* response that request computed, the prediction for the field values of
\* the key; entries change in no other way than that and their removal.
C22_OnlySuccessesWrite ==
  [][ /\ \A w \in Workers :
           ( /\ worker'[w] # worker[w]
             /\ worker'[w].pc = "done"
             /\ worker'[w].status # 200 )
           => store' = store
      /\ \A k \in Keys :
           (store'[k] # store[k] /\ store'[k].value # None)
             => \E w \in Workers :
                  /\ worker[w].pc = "store"
                  /\ worker[w].cache_key = k
                  /\ worker[w].infer_calls = 1
                  /\ worker[w].error = "none"
                  /\ worker[w].response_data = Prediction(worker[w].payload)
                  /\ worker'[w].status = 200
                  /\ worker'[w].body = worker[w].response_data
                  /\ store'[k].value = Dumps(worker[w].response_data)
                  /\ WellFormed(worker[w].payload)
                  /\ generate_cache_key(TaxiInput(worker[w].payload)) = k
    ]_vars

\* one request failed at inference and wrote nothing; an equal request
\* succeeded, and the entry under their key is the response it computed
C22_Witness ==
  \E w, v \in Workers :
    /\ w # v
    /\ worker[w].payload = worker[v].payload
    /\ Done(w) /\ worker[w].status = 500 /\ worker[w].error = "RuntimeError"
    /\ worker[w].write = "none"
    /\ Done(v) /\ worker[v].status = 200 /\ worker[v].write = "ok"
    /\ store[worker[v].cache_key].value = Dumps(worker[v].body)

\* C23: a lookup that answers from the cache changes nothing in the cache: no
\* write and no new expiry; an entry changes only when the store step of a
\* request that missed writes it, with expiry 3600 seconds after that step,
\* or when the backend drops it at its expiry, so hits in between do not move
\* the time at which it goes.
C23_HitLeavesCacheAlone ==
  [][ /\ \A w \in Workers :
           ( /\ worker[w].pc = "check"
             /\ worker'[w].read = "hit" )
           => /\ store' = store
              /\ now' = now
              /\ worker'[w].pc = "done"
              /\ worker'[w].write = "none"
              /\ worker'[w].infer_calls = 0
      /\ \A w \in Workers :
           ( /\ worker[w].read = "hit"
             /\ worker'[w] # worker[w] )
           => store' = store
      /\ \A k \in Keys :
           store'[k] # store[k]
             => \/ /\ store'[k] = NoEntry
                   /\ store[k].expires <= now'
                   /\ now < store[k].expires
                \/ \E w \in Workers :
                     /\ worker[w].pc = "store"
                     /\ worker[w].read = "miss"
                     /\ worker[w].cache_key = k
                     /\ worker'[w].write = "ok"
                     /\ store'[k].expires = now + 3600
    ]_vars

\* time has passed since the miss that stored the entry, a request has been
\* served from it, and the entry still expires 3600 seconds after that miss
C23_Witness ==
  \E w, v \in Workers :
    /\ w # v
    /\ now > 0
    /\ Done(v) /\ worker[v].read = "miss" /\ worker[v].write = "ok"
    /\ Done(w) /\ worker[w].read = "hit" /\ worker[w].status = 200
    /\ worker[w].cache_key = worker[v].cache_key
    /\ store[worker[w].cache_key].expires = 3600
    /\ store[worker[w].cache_key].value = Dumps(worker[w].body)

====
